---- MODULE Spec2Model ----
(***************************************************************************)
(* A model of the lazy-list crate: the memoizing cell Lazy<T, F>           *)
(* (src/src/lazy.rs) and the lazy list built from it (src/src/list.rs).    *)
(*                                                                         *)
(* A thread of control is a call stack of frames.  Lazy::force is modelled *)
(* one memory access at a time, so that reentrant calls (from inside the   *)
(* producer) and calls interleaved from other threads are both behaviours  *)
(* of the model.                                                           *)
(***************************************************************************)
EXTENDS Integers, Sequences, FiniteSets, TLC

\* ------------------------------------------------------------------ bounds
NumThreads == 2
MaxForces == 3
MaxNodes == 6
MaxHandles == 2
MaxLen == 2
CutOff == 5
MaxPrepends == 1

Threads == 1..NumThreads
Nodes == 1..MaxNodes
Values == 1..2

VARIABLES
    heap,    \* node id -> the Lazy cell behind that Rc (and whether it is allocated)
    stack,   \* thread -> its call stack, innermost frame last
    ret,     \* thread -> outcome of the force call that returned last on it
    calls,   \* node id -> how many times the cell's producer has been invoked
    issued,  \* thread -> number of force calls it has issued
    handles, \* node id -> how many LazyList values the client holds that point to it
    res,     \* result of the list operation that returned last
    capacity,\* nodes the allocator can still hand out to new lists
    pulls,   \* number of calls of next() on source iterators
    stepLog, \* what the cyclic step function returned, call by call (0: nothing)
    hist     \* node id -> how the list headed by that node was constructed

cellVars == <<heap, stack, ret, calls, issued>>
listVars == <<handles, res, capacity, pulls, stepLog, hist>>
vars == <<heap, stack, ret, calls, issued, handles, res, capacity, pulls, stepLog, hist>>

\* ------------------------------------------------------------ data values
\* A value of the cell's type T.  For the list, T is LazyListInner<T>.
NoVal == [tag |-> "NoVal", item |-> 0, next |-> 0]
Val(v) == [tag |-> "Val", item |-> v, next |-> 0]
Terminated == [tag |-> "Terminated", item |-> 0, next |-> 0]
Evaluated(x, tl) == [tag |-> "Evaluated", item |-> x, next |-> tl]

\* The contents of the producer slot `init: Cell<Option<F>>`.
NoneF == [kind |-> "None", src |-> <<>>, fn |-> "", node |-> 0, content |-> NoVal]
OpaqueF == [kind |-> "Opaque", src |-> <<>>, fn |-> "", node |-> 0, content |-> NoVal]

\* emplace: `Box::new(move || cell)`
EmplaceF(c) == [kind |-> "Emplace", src |-> <<>>, fn |-> "", node |-> 0, content |-> c]
\* create_evaluator(iter): the closure owns the rest of the source.
FiniteF(src) == [kind |-> "Finite", src |-> src, fn |-> "", node |-> 0, content |-> NoVal]
\* create_evaluator(iter) for a source that never ends: period.cycle().
EndlessF(src) == [kind |-> "Endless", src |-> src, fn |-> "", node |-> 0, content |-> NoVal]
\* new_cyclic's closure `b`: owns the step function and w, a Weak to its own node.
CyclicHeadF(fn, w) == [kind |-> "CyclicHead", src |-> <<>>, fn |-> fn, node |-> w, content |-> NoVal]
\* create_cyclic_evaluator(f, node): owns the step function and node, a LazyList
\* (an Rc, a strong reference).
CyclicF(fn, node) == [kind |-> "Cyclic", src |-> <<>>, fn |-> fn, node |-> node, content |-> NoVal]

\* A node id that was never allocated.
FreeCell == [live |-> "free", once |-> "INCOMPLETE", val |-> NoVal,
             init |-> NoneF, in_progress |-> FALSE]

\* Lazy::new(f): an empty OnceCell, the producer in its slot, the flag down.
LazyNew(f) == [live |-> "live", once |-> "INCOMPLETE", val |-> NoVal,
               init |-> f, in_progress |-> FALSE]

\* Drop for Rc at strong count zero: the cell is dropped with all it holds.
DroppedCell == [FreeCell EXCEPT !.live = "dropped"]

\* ------------------------------------------------------------------ frames
Frame(k, n, pc) == [k |-> k, n |-> n, pc |-> pc, v |-> NoVal, f |-> NoneF,
                    op |-> "", idx |-> 0, acc |-> <<>>, head |-> n]

Depth(t) == Len(stack[t])
Top(t) == stack[t][Len(stack[t])]
Pop(s) == SubSeq(s, 1, Len(s) - 1)
SetTop(s, fr) == [s EXCEPT ![Len(s)] = fr]

\* The outcome of a force call, as its caller sees it; depth is the depth of the
\* call on its thread's stack (2 or more: issued from inside a producer).
Outcome(kind, v, d) == [kind |-> kind, val |-> v, depth |-> d]
NoOutcome == Outcome("", NoVal, 0)

\* The result of a list operation: get -> (some, n), len -> n, is_empty -> some,
\* a whole traversal -> seq, list[i] -> (some, n) or the panic in err.  node is
\* the list's head, depth the depth of the operation's frame (1: called by the
\* client, more: by a step function).
Result(op, node, arg, some, n, seq, d) ==
    [op |-> op, node |-> node, arg |-> arg, some |-> some, n |-> n, seq |-> seq,
     depth |-> d, err |-> ""]
NoResult == Result("", 0, 0, FALSE, 0, <<>>, 0)
NoHist == [by |-> "", seq |-> <<>>, x |-> 0, tail |-> 0, fn |-> ""]

\* -------------------------------------------------------- Lazy::force, pure
\* `if this.in_progress.load(Ordering::Acquire) { return None; }`
ForceNoEarlyReturn(c) == FALSE
ForceReturnsEarly(c) == c.in_progress

\* OnceCell::get_or_init finds the value already stored.
OnceNeverComplete(c) == FALSE
OnceIsComplete(c) == c.once = "COMPLETE"

\* OnceCell::get_or_init: another initialisation is running; the caller waits.
OnceNeverRunning(c) == FALSE
OnceIsRunning(c) == c.once = "RUNNING"

\* OnceCell::get_or_init claims the initialisation.
OnceBegin(c) == [c EXCEPT !.once = "RUNNING"]

\* `this.init.take()`
TakeInitKeep(c) == c
TakeInit(c) == [c EXCEPT !.init = NoneF]

\* `this.in_progress.store(true, Ordering::Release)`
FlagNotRaised(c) == c
FlagRaise(c) == [c EXCEPT !.in_progress = TRUE]

\* Canary::drop: `self.0.store(false, Ordering::Release)`
CanaryLeaveSet(c) == c
CanaryDrop(c) == [c EXCEPT !.in_progress = FALSE]

\* OnceCell::get_or_init stores the closure's result.
OnceStoreForgets(c, v) == c
OnceStore(c, v) == [c EXCEPT !.once = "COMPLETE", !.val = v]

\* OnceCell::get_or_init: the closure panicked; the cell is left uninitialised.
OnceAbandon(c) == [c EXCEPT !.once = "INCOMPLETE"]

\* ------------------------------------------------------ Lazy::force, steps
\* A force frame's pc:
\*   check  about to load in_progress        once   about to call get_or_init
\*   take   in the closure, before take()    flag   took Some(f), before the store
\*   run    f() is executing                 drop   f returned, _c not yet dropped
\*   set    closure returned, value not yet stored
\*   dropP  f panicked, _c not yet dropped   reset  unwinding out of get_or_init
IsForce(t, pc) == Depth(t) > 0 /\ Top(t).k = "force" /\ Top(t).pc = pc

\* The force call on top of t's stack returns `out` to its caller.
ReturnFromForce(t, kind, v) ==
    /\ stack' = [stack EXCEPT ![t] = Pop(stack[t])]
    /\ ret' = [ret EXCEPT ![t] = Outcome(kind, v, Depth(t))]

ForceCheck(t) ==
    /\ IsForce(t, "check")
    /\ IF ForceReturnsEarly(heap[Top(t).n])
       THEN ReturnFromForce(t, "None", NoVal)
       ELSE /\ stack' = [stack EXCEPT ![t] = SetTop(@, [Top(t) EXCEPT !.pc = "once"])]
            /\ ret' = ret
    /\ UNCHANGED <<heap, calls, issued, listVars>>

ForceOnce(t) ==
    /\ IsForce(t, "once")
    /\ LET n == Top(t).n IN
       IF OnceIsComplete(heap[n])
       THEN /\ ReturnFromForce(t, "Some", heap[n].val)
            /\ heap' = heap
       ELSE /\ ~OnceIsRunning(heap[n])
            /\ heap' = [heap EXCEPT ![n] = OnceBegin(@)]
            /\ stack' = [stack EXCEPT ![t] = SetTop(@, [Top(t) EXCEPT !.pc = "take"])]
            /\ ret' = ret
    /\ UNCHANGED <<calls, issued, listVars>>

ForceTake(t) ==
    /\ IsForce(t, "take")
    /\ LET n == Top(t).n IN
       IF heap[n].init # NoneF
       THEN /\ heap' = [heap EXCEPT ![n] = TakeInit(@)]
            /\ stack' = [stack EXCEPT ![t] =
                           SetTop(@, [Top(t) EXCEPT !.pc = "flag", !.f = heap[n].init])]
       ELSE /\ heap' = heap
            /\ stack' = [stack EXCEPT ![t] =
                           SetTop(@, [Top(t) EXCEPT !.pc = "reset", !.op = "Poisoned"])]
    /\ UNCHANGED <<ret, calls, issued, listVars>>

ForceFlag(t) ==
    /\ IsForce(t, "flag")
    /\ LET n == Top(t).n IN
       /\ heap' = [heap EXCEPT ![n] = FlagRaise(@)]
       /\ calls' = [calls EXCEPT ![n] = @ + 1]
    /\ stack' = [stack EXCEPT ![t] = SetTop(@, [Top(t) EXCEPT !.pc = "run"])]
    /\ UNCHANGED <<ret, issued, listVars>>

ForceCanary(t) ==
    /\ Depth(t) > 0 /\ Top(t).k = "force" /\ Top(t).pc \in {"drop", "dropP"}
    /\ heap' = [heap EXCEPT ![Top(t).n] = CanaryDrop(@)]
    /\ stack' = [stack EXCEPT ![t] =
                   SetTop(@, [Top(t) EXCEPT !.pc = IF Top(t).pc = "drop" THEN "set" ELSE "reset",
                                            !.op = IF Top(t).pc = "drop" THEN "" ELSE "Panic"])]
    /\ UNCHANGED <<ret, calls, issued, listVars>>

ForceSet(t) ==
    /\ IsForce(t, "set")
    /\ heap' = [heap EXCEPT ![Top(t).n] = OnceStore(@, Top(t).v)]
    /\ ReturnFromForce(t, "Some", Top(t).v)
    /\ UNCHANGED <<calls, issued, listVars>>

\* The panic leaves get_or_init and force; a producer frame below it is unwound
\* in turn.
ForceReset(t) ==
    /\ IsForce(t, "reset")
    /\ heap' = [heap EXCEPT ![Top(t).n] = OnceAbandon(@)]
    /\ ret' = [ret EXCEPT ![t] = Outcome(Top(t).op, NoVal, Depth(t))]
    /\ stack' = [stack EXCEPT ![t] =
                   IF Depth(t) > 1
                   THEN SetTop(Pop(@), [@[Len(@) - 1] EXCEPT !.pc = "dropP"])
                   ELSE Pop(@)]
    /\ UNCHANGED <<calls, issued, listVars>>

ForceStep(t) ==
    \/ ForceCheck(t)
    \/ ForceOnce(t)
    \/ ForceTake(t)
    \/ ForceFlag(t)
    \/ ForceCanary(t)
    \/ ForceSet(t)

\* ------------------------------------- a cell shared by threads (SpecForce)
\* One Lazy<T, F> at node 1 with an arbitrary producer F: while it runs it may
\* force its own cell, and it ends by returning a value or by panicking.
TheCell == 1

IsRunning(t, kind) == IsForce(t, "run") /\ Top(t).f.kind = kind

\* A thread calls Lazy::force(&cell).
CallForce(t) ==
    /\ Depth(t) = 0
    /\ issued[t] < MaxForces
    /\ stack' = [stack EXCEPT ![t] = <<Frame("force", TheCell, "check")>>]
    /\ issued' = [issued EXCEPT ![t] = @ + 1]
    /\ UNCHANGED <<heap, ret, calls, listVars>>

\* The running producer calls Lazy::force on the cell it is producing.
OpaqueReenter(t) ==
    /\ IsRunning(t, "Opaque")
    /\ issued[t] < MaxForces
    /\ stack' = [stack EXCEPT ![t] = Append(@, Frame("force", Top(t).n, "check"))]
    /\ issued' = [issued EXCEPT ![t] = @ + 1]
    /\ UNCHANGED <<heap, ret, calls, listVars>>

OpaqueReturn(t) ==
    /\ IsRunning(t, "Opaque")
    /\ \E v \in Values :
         stack' = [stack EXCEPT ![t] = SetTop(@, [Top(t) EXCEPT !.pc = "drop", !.v = Val(v)])]
    /\ UNCHANGED <<heap, ret, calls, issued, listVars>>

OpaquePanic(t) ==
    /\ IsRunning(t, "Opaque")
    /\ stack' = [stack EXCEPT ![t] = SetTop(@, [Top(t) EXCEPT !.pc = "dropP"])]
    /\ UNCHANGED <<heap, ret, calls, issued, listVars>>

\* No list has been built.
NoLists ==
    /\ handles = [n \in Nodes |-> 0]
    /\ res = NoResult
    /\ capacity = MaxNodes
    /\ pulls = 0
    /\ stepLog = <<>>
    /\ hist = [n \in Nodes |-> NoHist]

InitForce ==
    /\ heap = [n \in Nodes |-> IF n = TheCell THEN LazyNew(OpaqueF) ELSE FreeCell]
    /\ stack = [t \in Threads |-> <<>>]
    /\ ret = [t \in Threads |-> NoOutcome]
    /\ calls = [n \in Nodes |-> 0]
    /\ issued = [t \in Threads |-> 0]
    /\ NoLists

NextForce ==
    \E t \in Threads :
        \/ CallForce(t)
        \/ ForceStep(t)
        \/ ForceReset(t)
        \/ OpaqueReenter(t)
        \/ OpaqueReturn(t)
        \/ OpaquePanic(t)

SpecForce == InitForce /\ [][NextForce]_vars

\* ----------------------------------------------------------------- the list
\* LazyList<T> holds an Rc, so a list lives on one thread.
Main == 1
\* The client is between two calls and holds no result it has not looked at.
Idle == Depth(Main) = 0 /\ res = NoResult

Indices == 0..(MaxLen + 1)
Sources == UNION {[1..k -> Values] : k \in 0..MaxLen}
StepFns == {"sieve", "probe", "echo"}

\* Rc::new for the head of a new list: the first node id that no list has been
\* given.  A list is given the ids of all the nodes it may come to allocate.
AllocId == MaxNodes - capacity + 1

\* Rc::new for the node that follows node n of its list.
SuccId(n) == n + 1

\* Cell c holds a LazyList (a strong Rc) to node n: in its cached value, or in
\* the captures of its pending producer.  The Weak of new_cyclic is not one.
Owns(c, n) ==
    \/ c.val.tag = "Evaluated" /\ c.val.next = n
    \/ c.init.kind = "Emplace" /\ c.init.content.tag = "Evaluated"
                               /\ c.init.content.next = n
    \/ c.init.kind = "Cyclic" /\ c.init.node = n

\* Rc::strong_count of node n when no operation is running.
StrongCount(hp, hs, n) ==
    hs[n]
      + Cardinality({m \in Nodes : hp[m].live = "live" /\ Owns(hp[m], n)})

\* Drop for Rc: a node whose strong count is zero is dropped, and with it the
\* references it held.
RECURSIVE Reclaim(_, _)
Reclaim(hp, hs) ==
    LET dead == {n \in Nodes : hp[n].live = "live" /\ StrongCount(hp, hs, n) = 0}
    IN  IF dead = {} THEN hp
        ELSE Reclaim([n \in Nodes |->
                        IF n \in dead THEN DroppedCell ELSE hp[n]], hs)

HasFree(n) == n \in Nodes /\ heap[n].live = "free"

\* LazyList(Rc::new(Lazy::new(f))) at a fresh node.
NewNode(hp, n, f) == [hp EXCEPT ![n] = LazyNew(f)]

\* ------------------------------------------------------------ constructors
\* The number of LazyList values the client holds.
Held == Cardinality({p \in Nodes \X (1..MaxHandles) : p[2] <= handles[p[1]]})

\* LazyList::new() = emplace(Terminated)
ListNew ==
    /\ Idle /\ Held < MaxHandles /\ capacity >= 1
    /\ heap' = NewNode(heap, AllocId, EmplaceF(Terminated))
    /\ handles' = [handles EXCEPT ![AllocId] = 1]
    /\ capacity' = capacity - 1
    /\ hist' = [hist EXCEPT ![AllocId] = [NoHist EXCEPT !.by = "new"]]
    /\ UNCHANGED <<stack, ret, calls, issued, res, pulls, stepLog>>

\* The content prepend hands to emplace: Evaluated(val, self).
PrependLosesValue(x, old) == Terminated
PrependContent(x, old) == Evaluated(x, old)

\* self.prepend(val): self is moved into the new node's closure.
ListPrepend(n, x) ==
    /\ Idle /\ handles[n] > 0 /\ capacity >= 1
    /\ heap' = NewNode(heap, AllocId, EmplaceF(PrependContent(x, n)))
    /\ handles' = [handles EXCEPT ![n] = @ - 1, ![AllocId] = 1]
    /\ capacity' = capacity - 1
    /\ hist' = [hist EXCEPT ![AllocId] =
                  [NoHist EXCEPT !.by = "prepend", !.x = x, !.tail = n]]
    /\ UNCHANGED <<stack, ret, calls, issued, res, pulls, stepLog>>

\* LazyList::from_iter(seq)
ListFromIter(seq) ==
    /\ Idle /\ Held < MaxHandles /\ capacity >= Len(seq) + 1
    /\ heap' = NewNode(heap, AllocId, FiniteF(seq))
    /\ handles' = [handles EXCEPT ![AllocId] = 1]
    /\ capacity' = capacity - (Len(seq) + 1)
    /\ hist' = [hist EXCEPT ![AllocId] = [NoHist EXCEPT !.by = "from_iter", !.seq = seq]]
    /\ UNCHANGED <<stack, ret, calls, issued, res, pulls, stepLog>>

\* LazyList::from_iter(period.into_iter().cycle()): a source that never reports
\* exhaustion.  The list may come to allocate every node there is.
ListFromCycle(period) ==
    /\ Idle /\ Held < MaxHandles /\ capacity >= 1 /\ period # <<>>
    /\ heap' = NewNode(heap, AllocId, EndlessF(period))
    /\ handles' = [handles EXCEPT ![AllocId] = 1]
    /\ capacity' = 0
    /\ hist' = [hist EXCEPT ![AllocId] = [NoHist EXCEPT !.by = "cycle", !.seq = period]]
    /\ UNCHANGED <<stack, ret, calls, issued, res, pulls, stepLog>>

\* LazyList::new_cyclic(f): Rc::new_cyclic hands the closure a Weak to the node.
ListNewCyclic(fn) ==
    /\ Idle /\ Held < MaxHandles /\ capacity >= CutOff + 1
    /\ heap' = NewNode(heap, AllocId, CyclicHeadF(fn, AllocId))
    /\ handles' = [handles EXCEPT ![AllocId] = 1]
    /\ capacity' = capacity - (CutOff + 1)
    /\ hist' = [hist EXCEPT ![AllocId] = [NoHist EXCEPT !.by = "cyclic", !.fn = fn]]
    /\ UNCHANGED <<stack, ret, calls, issued, res, pulls, stepLog>>

\* #[derive(Clone)]: Rc::clone
ListClone(n) ==
    /\ Idle /\ handles[n] > 0 /\ Held < MaxHandles
    /\ handles' = [handles EXCEPT ![n] = @ + 1]
    /\ UNCHANGED <<cellVars, res, capacity, pulls, stepLog, hist>>

\* A LazyList value goes out of scope.
ListDrop(n) ==
    /\ Idle /\ handles[n] > 0
    /\ handles' = [handles EXCEPT ![n] = @ - 1]
    /\ heap' = Reclaim(heap, handles')
    /\ UNCHANGED <<stack, ret, calls, issued, res, capacity, pulls, stepLog, hist>>

\* ----------------------------------------------------------------- queries
\* Iter(self): the cursor n starts at the head; acc is what next() has yielded.
IterFrame(n, op, i) == [Frame("iter", n, "next") EXCEPT !.op = op, !.idx = i]

\* The frames a call of `op` on the list at node n pushes: get, len and a whole
\* traversal run an Iter; is_empty forces the head at once.
OpFrames(op, n, i) ==
    IF op = "is_empty"
    THEN <<[Frame("is_empty", n, "await") EXCEPT !.op = op], Frame("force", n, "check")>>
    ELSE <<IterFrame(n, op, i)>>

\* The client calls list.get(i), list.len(), list.iter() (to the end) or
\* list.is_empty().
ListQuery(n, op, i) ==
    /\ Idle /\ handles[n] > 0
    /\ stack' = [stack EXCEPT ![Main] = OpFrames(op, n, i)]
    /\ UNCHANGED <<heap, ret, calls, issued, listVars>>

\* The client has looked at the result of its call.
ResultTaken ==
    /\ Depth(Main) = 0 /\ res # NoResult
    /\ res' = NoResult
    /\ UNCHANGED <<cellVars, handles, capacity, pulls, stepLog, hist>>

\* The operation on top of the stack returns to its caller.
FinishOp(some, n, seq) ==
    /\ stack' = [stack EXCEPT ![Main] = Pop(@)]
    /\ res' = Result(Top(Main).op, Top(Main).head, Top(Main).idx, some, n, seq, Depth(Main))

\* Iterator::nth(idx) has taken its idx + 1 items.
NthNeverDone(fr) == FALSE
NthDone(fr) == fr.op = "get" /\ Len(fr.acc) = fr.idx + 1

\* nth/count/for drive Iter::next: the next call of Lazy::force(&*self.0 .0).
IterNext ==
    /\ Depth(Main) > 0 /\ Top(Main).k = "iter" /\ Top(Main).pc = "next"
    /\ IF NthDone(Top(Main))
       THEN FinishOp(TRUE, Top(Main).acc[Len(Top(Main).acc)], <<>>)
       ELSE /\ stack' = [stack EXCEPT ![Main] =
                           Append(SetTop(@, [Top(Main) EXCEPT !.pc = "await"]),
                                  Frame("force", Top(Main).n, "check"))]
            /\ res' = res
    /\ UNCHANGED <<heap, ret, calls, issued, handles, capacity, pulls, stepLog, hist>>

\* Iter::next's match on what force returned.
IterAdvance(fr, out) ==
    [fr EXCEPT !.n = out.val.next, !.acc = Append(@, out.val.item), !.pc = "next"]

IterAwait ==
    /\ Depth(Main) > 0 /\ Top(Main).k = "iter" /\ Top(Main).pc = "await"
    /\ IF ret[Main].kind = "Some" /\ ret[Main].val.tag = "Evaluated"
       THEN /\ stack' = [stack EXCEPT ![Main] = SetTop(@, IterAdvance(Top(Main), ret[Main]))]
            /\ res' = res
       ELSE FinishOp(FALSE, Len(Top(Main).acc), Top(Main).acc)
    /\ ret' = [ret EXCEPT ![Main] = NoOutcome]
    /\ UNCHANGED <<heap, calls, issued, handles, capacity, pulls, stepLog, hist>>

\* matches!(.., Some(LazyListInner::Terminated)) on what force returned.
MatchesNothing(out) == FALSE
MatchesTerminated(out) == out.kind = "Some" /\ out.val.tag = "Terminated"

\* is_empty: matches!(Lazy::force(&*self.0), Some(LazyListInner::Terminated))
IsEmptyAwait ==
    /\ Depth(Main) > 0 /\ Top(Main).k = "is_empty"
    /\ FinishOp(MatchesTerminated(ret[Main]), 0, <<>>)
    /\ ret' = [ret EXCEPT ![Main] = NoOutcome]
    /\ UNCHANGED <<heap, calls, issued, handles, capacity, pulls, stepLog, hist>>

\* Option::expect on what get returned: None is the panic 'Index out of range'.
ExpectNeverFails(r) == FALSE
ExpectFails(r) == ~r.some

\* Index::index: `self.get(index)` under the frame that will `expect` on it.
IndexFrames(n, i) ==
    <<[Frame("index", n, "await") EXCEPT !.op = "index", !.idx = i], IterFrame(n, "get", i)>>

\* The client evaluates list[i].
ListIndex(n, i) ==
    /\ Idle /\ handles[n] > 0
    /\ stack' = [stack EXCEPT ![Main] = IndexFrames(n, i)]
    /\ UNCHANGED <<heap, ret, calls, issued, listVars>>

\* `.expect("Index out of range")`: the element, or the panic, which unwinds to
\* the client.
IndexAwait ==
    /\ Depth(Main) > 0 /\ Top(Main).k = "index" /\ res # NoResult
    /\ stack' = [stack EXCEPT ![Main] = Pop(@)]
    /\ res' = IF ExpectFails(res)
              THEN [Result("index", Top(Main).head, Top(Main).idx, FALSE, 0, <<>>, Depth(Main))
                      EXCEPT !.err = "Index out of range"]
              ELSE Result("index", Top(Main).head, Top(Main).idx, TRUE, res.n, <<>>, Depth(Main))
    /\ UNCHANGED <<heap, ret, calls, issued, handles, capacity, pulls, stepLog, hist>>

\* --------------------------------------------------------------- producers
\* emplace's closure `move || cell`
RunEmplace ==
    /\ IsRunning(Main, "Emplace")
    /\ stack' = [stack EXCEPT ![Main] =
                   SetTop(@, [Top(Main) EXCEPT !.pc = "drop", !.v = Top(Main).f.content])]
    /\ UNCHANGED <<heap, ret, calls, issued, listVars>>

\* What create_evaluator's closure hands to the next node: the iterator after
\* its next().
SourceNotAdvanced(src) == src
SourceRest(src) == Tail(src)

\* create_evaluator's closure: one iter.next(), then the next node or Terminated.
RunFinite ==
    /\ IsRunning(Main, "Finite")
    /\ pulls' = pulls + 1
    /\ LET src == Top(Main).f.src IN
       IF src # <<>>
       THEN /\ HasFree(SuccId(Top(Main).n))
            /\ heap' = NewNode(heap, SuccId(Top(Main).n), FiniteF(SourceRest(src)))
            /\ stack' = [stack EXCEPT ![Main] =
                           SetTop(@, [Top(Main) EXCEPT !.pc = "drop",
                                                      !.v = Evaluated(Head(src), SuccId(Top(Main).n))])]
       ELSE /\ heap' = heap
            /\ stack' = [stack EXCEPT ![Main] =
                           SetTop(@, [Top(Main) EXCEPT !.pc = "drop", !.v = Terminated])]
    /\ UNCHANGED <<ret, calls, issued, handles, res, capacity, stepLog, hist>>

\* Cycle::next: the period's next item; the iterator goes on with the period
\* rotated by one.
CycleRest(src) == Append(Tail(src), Head(src))

\* create_evaluator's closure over a cycle: next() is always Some(item).
RunEndless ==
    /\ IsRunning(Main, "Endless")
    /\ HasFree(SuccId(Top(Main).n))
    /\ pulls' = pulls + 1
    /\ LET src == Top(Main).f.src IN
       /\ heap' = NewNode(heap, SuccId(Top(Main).n), EndlessF(CycleRest(src)))
       /\ stack' = [stack EXCEPT ![Main] =
                      SetTop(@, [Top(Main) EXCEPT !.pc = "drop",
                                                 !.v = Evaluated(Head(src), SuccId(Top(Main).n))])]
    /\ UNCHANGED <<ret, calls, issued, handles, res, capacity, stepLog, hist>>

\* Weak::upgrade: Some while the node has not been dropped.
UpgradeFails(hp, w) == FALSE
Upgrade(hp, w) == hp[w].live = "live"

\* new_cyclic's closure: `w.upgrade()`, then create_cyclic_evaluator(f, node)().
RunCyclicHead ==
    /\ IsRunning(Main, "CyclicHead")
    /\ LET fr == Top(Main) IN
       stack' = [stack EXCEPT ![Main] =
                   SetTop(@, IF Upgrade(heap, fr.f.node)
                             THEN [fr EXCEPT !.f = CyclicF(fr.f.fn, fr.f.node)]
                             ELSE [fr EXCEPT !.pc = "dropP", !.op = "unimplemented"])]
    /\ UNCHANGED <<heap, ret, calls, issued, listVars>>

\* create_cyclic_evaluator's closure calls `f(&node)`.
RunCyclic ==
    /\ IsRunning(Main, "Cyclic")
    /\ stack' = [stack EXCEPT ![Main] =
                   Append(@, [Frame("step", Top(Main).f.node, "start") EXCEPT !.f = Top(Main).f])]
    /\ UNCHANGED <<heap, ret, calls, issued, listVars>>

\* ------------------------------------------------------- the step functions
\* The sieve of tests::primes: the candidate after the last element that no
\* element of the list divides.
CandidateUnsieved(n, prefix) == n + 2
RECURSIVE Candidate(_, _)
Candidate(n, prefix) ==
    IF \E i \in 1..Len(prefix) : n % prefix[i] = 0
    THEN Candidate(n + 2, prefix)
    ELSE n
SieveNext(prefix) == Candidate(prefix[Len(prefix)], prefix)

\* The list the sieve builds when each call sees the elements before it.
RECURSIVE SieveRun(_, _)
SieveRun(prefix, cutoff) ==
    IF Len(prefix) = cutoff THEN prefix
    ELSE SieveRun(Append(prefix, IF Len(prefix) <= 1 THEN Len(prefix) + 2
                                 ELSE SieveNext(prefix)), cutoff)

\* tests::primes: the cutoff and the element the test expects last.
TestCutOff == 100
TestLastPrime == 541

\* The arms of the sieve's match that need no element: 0 => Some(2),
\* 1 => Some(3), cutoff => None (0).
SieveNeverEnds(k, cutoff) == k + 2
SieveOnLen(k, cutoff) == IF k = cutoff THEN 0 ELSE k + 2

IsStep(pc) == Depth(Main) > 0 /\ Top(Main).k = "step" /\ Top(Main).pc = pc

\* f returns to create_cyclic_evaluator's closure: Some(item) builds the next
\* node around a new closure owning f and node; None ends the list.  item = 0
\* stands for None.
SuccessorSeesItself(node, succ) == succ
SuccessorHandle(node, succ) == node

StepReturn(item) ==
    /\ LET below == stack[Main][Depth(Main) - 1] IN
       IF item # 0
       THEN /\ HasFree(SuccId(below.n))
            /\ heap' = NewNode(heap, SuccId(below.n),
                               CyclicF(below.f.fn, SuccessorHandle(below.f.node, SuccId(below.n))))
            /\ stack' = [stack EXCEPT ![Main] =
                           SetTop(Pop(@), [below EXCEPT !.pc = "drop",
                                                        !.v = Evaluated(item, SuccId(below.n))])]
       ELSE /\ heap' = heap
            /\ stack' = [stack EXCEPT ![Main] =
                           SetTop(Pop(@), [below EXCEPT !.pc = "drop", !.v = Terminated])]
    /\ stepLog' = Append(stepLog, item)

\* sieve and probe begin with l.len(); echo begins with l.is_empty().
StepStart ==
    /\ IsStep("start")
    /\ stack' = [stack EXCEPT ![Main] =
                   IF Top(Main).f.fn = "echo"
                   THEN SetTop(@, [Top(Main) EXCEPT !.pc = "empty_ret"])
                          \o OpFrames("is_empty", Top(Main).n, 0)
                   ELSE SetTop(@, [Top(Main) EXCEPT !.pc = "len_ret"])
                          \o OpFrames("len", Top(Main).n, 0)]
    /\ UNCHANGED <<heap, ret, calls, issued, listVars>>

\* echo: `let e = l.is_empty(); let k = l.len();`  The frame keeps e in op.
StepAfterEmpty ==
    /\ IsStep("empty_ret")
    /\ stack' = [stack EXCEPT ![Main] =
                   SetTop(@, [Top(Main) EXCEPT !.pc = "len_ret",
                                              !.op = IF res.some THEN "empty" ELSE "nonempty"])
                     \o OpFrames("len", Top(Main).n, 0)]
    /\ res' = NoResult
    /\ UNCHANGED <<heap, ret, calls, issued, handles, capacity, pulls, stepLog, hist>>

\* The arms of echo's match that need no element: cutoff => None (0),
\* 0 => Some(1).
EchoOnLen(k, cutoff) == IF k = cutoff THEN 0 ELSE 1

\* sieve: `match l.len() { 0 => Some(2), 1 => Some(3), CutOff => None, _ => ... }`
\* probe: `let k = l.len(); if k == CutOff { None } else { l.get(k) ... }`
\* echo:  `match l.len() { CutOff => None, 0 => Some(1), k => l.get(k - 1).map(|v| v + 1) }`
StepAfterLen ==
    /\ IsStep("len_ret")
    /\ LET k == res.n
           fr == Top(Main)
       IN  IF k = CutOff \/ (fr.f.fn = "sieve" /\ k <= 1) \/ (fr.f.fn = "echo" /\ k = 0)
           THEN StepReturn(IF fr.f.fn = "echo" THEN EchoOnLen(k, CutOff)
                           ELSE SieveOnLen(k, CutOff))
           ELSE /\ stack' = [stack EXCEPT ![Main] =
                               SetTop(@, [fr EXCEPT !.pc = "read_ret", !.idx = k])
                                 \o (IF fr.f.fn = "sieve" THEN OpFrames("iter", fr.n, k)
                                     ELSE IF fr.f.fn = "probe" THEN OpFrames("get", fr.n, k)
                                     ELSE OpFrames("get", fr.n, k - 1))]
                /\ UNCHANGED <<heap, stepLog>>
    /\ res' = NoResult
    /\ UNCHANGED <<ret, calls, issued, handles, capacity, pulls, hist>>

\* sieve: the next prime from the elements read; probe: `Some(k + 1)` when
\* l.get(k) was None, `Some(0 + ...)` never otherwise; echo: the element read
\* plus one, None when there was none.
StepAfterRead ==
    /\ IsStep("read_ret")
    /\ StepReturn(IF Top(Main).f.fn = "sieve" THEN SieveNext(res.seq)
                  ELSE IF Top(Main).f.fn = "echo"
                       THEN (IF res.some THEN res.n + 1 ELSE 0)
                  ELSE IF res.some THEN res.n + CutOff + 1 ELSE Top(Main).idx + 1)
    /\ res' = NoResult
    /\ UNCHANGED <<ret, calls, issued, handles, capacity, pulls, hist>>

\* ---------------------------------------------------------- specifications
NoCells ==
    /\ heap = [n \in Nodes |-> FreeCell]
    /\ stack = [t \in Threads |-> <<>>]
    /\ ret = [t \in Threads |-> NoOutcome]
    /\ calls = [n \in Nodes |-> 0]
    /\ issued = [t \in Threads |-> 0]

InitList == NoCells /\ NoLists

Machinery ==
    \/ ForceStep(Main)
    \/ IterNext
    \/ IterAwait
    \/ IsEmptyAwait

Query ==
    \/ \E n \in Nodes :
          \/ \E i \in Indices : ListQuery(n, "get", i)
          \/ \E op \in {"len", "iter", "is_empty"} : ListQuery(n, op, 0)
    \/ ResultTaken

\* One list built from a finite source, and the queries on it.
NextFinite ==
    \/ \E seq \in Sources : capacity = MaxNodes /\ ListFromIter(seq)
    \/ \E n \in Nodes : \E i \in Indices : ListIndex(n, i)
    \/ IndexAwait
    \/ Query
    \/ Machinery
    \/ RunFinite

SpecFinite == InitList /\ [][NextFinite]_vars

\* One list built from a finite source, from a source that never ends, or by
\* new_cyclic from a step function that returns nothing at the cutoff; a call,
\* once made, keeps running.
NextLen ==
    \/ \E seq \in Sources : capacity = MaxNodes /\ ListFromIter(seq)
    \/ \E seq \in Sources : capacity = MaxNodes /\ ListFromCycle(seq)
    \/ \E fn \in StepFns : capacity = MaxNodes /\ ListNewCyclic(fn)
    \/ Query
    \/ Machinery
    \/ RunFinite
    \/ RunEndless
    \/ RunCyclicHead
    \/ RunCyclic
    \/ StepStart
    \/ StepAfterEmpty
    \/ StepAfterLen
    \/ StepAfterRead

\* The steps of a call that is under way: there is one thread, so the call runs
\* whenever it can.
Running ==
    \/ Machinery
    \/ RunFinite
    \/ RunEndless
    \/ RunCyclicHead
    \/ RunCyclic
    \/ StepStart
    \/ StepAfterEmpty
    \/ StepAfterLen
    \/ StepAfterRead

SpecLen == InitList /\ [][NextLen]_vars /\ WF_vars(Running)

\* A value that is no element of any list built so far.
Prepends == Cardinality({n \in Nodes : hist[n].by = "prepend"})
FreshValue == Cardinality(Values) + 1 + Prepends

\* Lists grown by prepend from an empty list or from a finite source, with
\* handles cloned and dropped.
NextPrepend ==
    \/ capacity = MaxNodes /\ ListNew
    \/ \E seq \in Sources : capacity = MaxNodes /\ ListFromIter(seq)
    \/ \E n \in Nodes : \E x \in {FreshValue} : Prepends < MaxPrepends /\ ListPrepend(n, x)
    \/ \E n \in Nodes : ListClone(n)
    \/ \E n \in Nodes : ListDrop(n)
    \/ Query
    \/ Machinery
    \/ RunEmplace
    \/ RunFinite

SpecPrepend == InitList /\ [][NextPrepend]_vars

\* One self-referential list, with handles cloned and dropped.
NextCyclic ==
    \/ \E fn \in StepFns : capacity = MaxNodes /\ ListNewCyclic(fn)
    \/ \E n \in Nodes : ListClone(n)
    \/ \E n \in Nodes : ListDrop(n)
    \/ Query
    \/ Machinery
    \/ RunCyclicHead
    \/ RunCyclic
    \/ StepStart
    \/ StepAfterEmpty
    \/ StepAfterLen
    \/ StepAfterRead

SpecCyclic == InitList /\ [][NextCyclic]_vars

\* ------------------------------------------------- claims about Lazy::force
\* A force call on cell n returns (normally or by panic) in this step of thread t.
ForceReturns(t, n) ==
    /\ Depth(t) > 0 /\ Top(t).k = "force" /\ Top(t).n = n
    /\ Len(stack'[t]) < Depth(t)

\* A thread is between taking the producer of cell n and leaving get_or_init
\* with its result or its panic.
Producing(n) ==
    \E t \in Threads : \E i \in 1..Depth(t) :
        /\ stack[t][i].k = "force" /\ stack[t][i].n = n
        /\ \/ stack[t][i].pc \in {"flag", "run", "drop", "set", "dropP"}
           \/ stack[t][i].pc = "reset" /\ stack[t][i].op = "Panic"

Done(n) == heap[n].live = "live" /\ heap[n].once = "COMPLETE"

\* The producer of cell n was taken, began, and ended without a value.
Poisoned(n) ==
    /\ heap[n].live = "live" /\ heap[n].init = NoneF
    /\ heap[n].once # "COMPLETE" /\ ~Producing(n)

\* C1: whatever forces were made (sequential, reentrant, from several threads),
\* the producer of a cell has been invoked at most once.
C1_AtMostOnce == \A n \in Nodes : calls[n] <= 1

C1_Witness ==
    /\ calls[TheCell] = 1
    /\ \A t \in Threads : issued[t] = MaxForces /\ Depth(t) = 0
    /\ \E t \in Threads : ret[t].kind = "Some"

\* C2: a force issued from inside the cell's own producer does nothing but
\* return None: its two steps (the call, the return) leave the cell and the
\* invocation count as they were and never start a deeper call or a wait; and
\* the outer force, when its producer has returned v, stores v and returns it.
C2_ReentrantNone ==
    [][\A t \in Threads :
         /\ (stack'[t] # stack[t] /\ (Depth(t) >= 2 \/ Len(stack'[t]) >= 2))
              => /\ heap' = heap /\ calls' = calls
                 /\ \/ /\ Depth(t) = 1
                       /\ stack'[t] = Append(stack[t], Frame("force", Top(t).n, "check"))
                    \/ /\ Depth(t) = 2
                       /\ stack'[t] = Pop(stack[t])
                       /\ stack'[t][1].pc = "run"
                       /\ ret'[t] = Outcome("None", NoVal, 2)
         /\ (IsForce(t, "set") /\ stack'[t] # stack[t])
              => /\ stack'[t] = <<>>
                 /\ heap'[Top(t).n].once = "COMPLETE" /\ heap'[Top(t).n].val = Top(t).v
                 /\ ret'[t] = Outcome("Some", Top(t).v, 1)]_vars

C2_Witness ==
    \E t \in Threads :
        /\ IsForce(t, "set") /\ Depth(t) = 1
        /\ ret[t] = Outcome("None", NoVal, 2)
        /\ calls[Top(t).n] = 1

\* C3: None is returned only to a force issued from inside the producer (a
\* reentrant one); a force of any other thread waits and gets the value.
C3_NoneOnlyReentrant ==
    \A t \in Threads : ret[t].kind = "None" => ret[t].depth >= 2

\* C4: once a cell is poisoned it stays poisoned: no producer runs, no value is
\* stored, and every force that returns does so with the 'previously been
\* poisoned' panic.
C4_Poisoned ==
    [][\A n \in Nodes :
         Poisoned(n) =>
            /\ Poisoned(n)'
            /\ calls'[n] = calls[n]
            /\ heap'[n].val = NoVal
            /\ \A t \in Threads : ForceReturns(t, n) => ret'[t].kind = "Poisoned"]_vars

C4_Witness ==
    /\ Poisoned(TheCell)
    /\ \E t \in Threads : ret[t].kind = "Poisoned" /\ Depth(t) = 0
    /\ calls[TheCell] = 1

\* C5: once a cell is Done its value never changes, no producer runs, and every
\* force that returns from then on returns that value.
C5_Idempotent ==
    [][\A n \in Nodes :
         Done(n) =>
            /\ Done(n)'
            /\ heap'[n].val = heap[n].val
            /\ calls'[n] = calls[n]
            /\ \A t \in Threads :
                 ForceReturns(t, n) => /\ ret'[t].kind = "Some"
                                       /\ ret'[t].val = heap[n].val]_vars

C5_Witness ==
    /\ Done(TheCell)
    /\ \E t1, t2 \in Threads :
         /\ t1 # t2
         /\ issued[t1] >= 2 /\ Depth(t1) = 0
         /\ ret[t1] = Outcome("Some", heap[TheCell].val, 1)
         /\ ret[t2] = Outcome("Some", heap[TheCell].val, 1)

\* ---------------------------------------------------- claims about the list
\* The client holds the result of a call it made itself.
TopResult == Depth(Main) = 0 /\ res # NoResult

\* Result r of iter/len/get(i), i in range, is the one a list of elements seq gives.
Agrees(r, seq) ==
    /\ r.op = "iter" => r.seq = seq
    /\ r.op = "len" => r.n = Len(seq)
    /\ (r.op = "get" /\ r.arg < Len(seq)) => (r.some /\ r.n = seq[r.arg + 1])

\* C6: a list built by from_iter(seq) yields seq in order, has len() = Len(seq)
\* and get(i) = the i-th element of seq for every i below the length.
C6_RoundTrip ==
    (TopResult /\ hist[res.node].by = "from_iter") => Agrees(res, hist[res.node].seq)

C6_Witness ==
    /\ TopResult /\ res.op = "iter" /\ hist[res.node].by = "from_iter"
    /\ Len(res.seq) = MaxLen /\ res.seq[1] # res.seq[MaxLen]
    /\ pulls = MaxLen + 1

\* The elements of the list headed by n, read off the way it was constructed.
RECURSIVE Expected(_)
Expected(n) ==
    IF hist[n].by = "prepend" THEN <<hist[n].x>> \o Expected(hist[n].tail)
    ELSE hist[n].seq

\* C7: for list2 = list1.prepend(x): list2 answers as x followed by list1,
\* list1 goes on answering as it did before the prepend, list1 stays alive as
\* long as list2 or a handle to it does, and dropping either handle leaves the
\* other list valid.
C7_SharedTail ==
    /\ \A m \in Nodes :
         hist[m].by = "prepend" =>
            /\ (TopResult /\ res.node = m) =>
                  Agrees(res, <<hist[m].x>> \o Expected(hist[m].tail))
            /\ (TopResult /\ res.node = hist[m].tail) =>
                  Agrees(res, Expected(hist[m].tail))
            /\ heap[m].live = "live" => heap[hist[m].tail].live = "live"
    /\ \A n \in Nodes : handles[n] > 0 => heap[n].live = "live"

C7_Witness ==
    /\ TopResult /\ res.op = "get" /\ res.arg >= 1 /\ res.some
    /\ hist[res.node].by = "prepend"
    /\ handles[hist[res.node].tail] > 0

\* The first cnt primes from p on, by trial division.
IsPrime(p) == p > 1 /\ \A d \in 2..(p - 1) : p % d # 0
RECURSIVE PrimesFrom(_, _)
PrimesFrom(p, cnt) ==
    IF cnt = 0 THEN <<>>
    ELSE IF IsPrime(p) THEN <<p>> \o PrimesFrom(p + 1, cnt - 1)
    ELSE PrimesFrom(p + 1, cnt)

\* C8: the list new_cyclic builds from the sieve with cutoff N is finite, its
\* traversal ends at the cutoff, and its N elements are the first N primes in
\* order; run with the test's cutoff of 100 the sieve ends on 541.
C8_SievePrimes ==
    (TopResult /\ hist[res.node].fn = "sieve") =>
        /\ Agrees(res, PrimesFrom(2, CutOff))
        /\ SieveRun(<<>>, TestCutOff)[TestCutOff] = TestLastPrime

C8_Witness ==
    /\ TopResult /\ res.op = "iter" /\ hist[res.node].fn = "sieve"
    /\ Len(res.seq) = CutOff
    /\ stepLog = Append(res.seq, 0)

StepFrames == {i \in 1..Depth(Main) : stack[Main][i].k = "step"}

\* C9: while the step function produces position k, a read of its handle that
\* reaches position k comes back absent (len() = k, a traversal of k elements,
\* get(i) = None for i >= k); no second step invocation starts, the force on
\* the node being produced goes no further than its flag check, no producer
\* runs twice, and the call in progress can always take its next step.
C9_Reentrancy ==
    /\ Cardinality(StepFrames) <= 1
    /\ \A i, j \in 1..Depth(Main) :
         (/\ i < j
          /\ stack[Main][i].k = "force" /\ stack[Main][j].k = "force"
          /\ stack[Main][i].n = stack[Main][j].n) => stack[Main][j].pc = "check"
    /\ \A n \in Nodes : calls[n] <= 1
    /\ (res # NoResult /\ res.depth > 1) =>
          /\ res.op = "len" => res.n = Len(stepLog)
          /\ res.op = "iter" => Len(res.seq) = Len(stepLog)
          /\ (res.op = "get" /\ res.arg >= Len(stepLog)) => ~res.some
    /\ Depth(Main) > 0 => ENABLED NextCyclic

C9_Witness ==
    /\ res # NoResult /\ res.depth > 1
    /\ res.op = "get" /\ res.arg = Len(stepLog) /\ ~res.some
    /\ Len(stepLog) >= 1

\* C10: no pending producer owns (holds an Rc to) a node of its list, and once
\* every handle of the client is dropped no node is left alive.
C10_WeakBackRefs ==
    /\ \A n, m \in Nodes :
         heap[n].live = "live" => ~(heap[n].init.kind = "Cyclic" /\ heap[n].init.node = m)
    /\ (Depth(Main) = 0 /\ \A m \in Nodes : handles[m] = 0) =>
          \A n \in Nodes : heap[n].live # "live"

\* C11: on a finite list of length n, get(i) with i >= n returns None and
\* list[i] panics with 'Index out of range'; with i < n both give the i-th
\* element; list[i] panics exactly when the get it made returned None; and
\* after either answer no cell is left poisoned or flagged: the list is usable.
C11_OutOfRange ==
    /\ (TopResult /\ hist[res.node].by = "from_iter") =>
          LET seq == hist[res.node].seq IN
          /\ (res.op = "get" /\ res.arg >= Len(seq)) => (~res.some /\ res.err = "")
          /\ (res.op = "index" /\ res.arg >= Len(seq)) => res.err = "Index out of range"
          /\ (res.op \in {"get", "index"} /\ res.arg < Len(seq)) =>
                (res.some /\ res.n = seq[res.arg + 1] /\ res.err = "")
          /\ \A n \in Nodes :
                heap[n].live = "live" => (~heap[n].in_progress /\ ~Poisoned(n))
    /\ (Depth(Main) > 0 /\ Top(Main).k = "index" /\ res # NoResult) =>
          (ENABLED IndexAwait /\ res.op = "get" /\ res.arg = Top(Main).idx)

C11_Witness ==
    /\ TopResult /\ res.op = "index" /\ res.err = "Index out of range"
    /\ hist[res.node].by = "from_iter" /\ res.arg = Len(hist[res.node].seq)
    /\ Len(hist[res.node].seq) = MaxLen

\* C12: a list made by new(), or by from_iter from an empty source, answers
\* is_empty() = true, len() = 0, get(i) = None for every i and an empty
\* traversal, at every call, whatever calls were made before.
C12_EmptyList ==
    (/\ TopResult
     /\ hist[res.node].by \in {"new", "from_iter"}
     /\ hist[res.node].seq = <<>>) =>
        /\ res.op = "is_empty" => res.some
        /\ res.op = "len" => res.n = 0
        /\ res.op = "get" => ~res.some
        /\ res.op = "iter" => res.seq = <<>>

C12_Witness ==
    /\ TopResult /\ hist[res.node].by = "new"
    /\ res.op = "is_empty" /\ res.some
    /\ calls[res.node] = 1

\* The elements cached along the spine from node n on.
RECURSIVE Spine(_)
Spine(n) ==
    IF n \in Nodes /\ Done(n) /\ heap[n].val.tag = "Evaluated"
    THEN <<heap[n].val.item>> \o Spine(heap[n].val.next)
    ELSE <<>>

\* The node j cached links after node n (0: there is none).
RECURSIVE Follow(_, _)
Follow(n, j) ==
    IF j = 0 THEN n
    ELSE IF n \in Nodes /\ Done(n) /\ heap[n].val.tag = "Evaluated"
         THEN Follow(heap[n].val.next, j - 1)
         ELSE 0

\* The cached spine from n ends in a cell holding Terminated.
Complete(n) == LET e == Follow(n, Len(Spine(n))) IN Done(e) /\ heap[e].val = Terminated

\* C13: an Iter starts at the head of its list and is always at the node its
\* yielded items lead to along the cached spine; a traversal returns exactly
\* the cached elements from the head, and one made by the client ends at the
\* Terminated cell; a cached cell never changes until it is dropped, whatever
\* runs in between and whichever clone is used; and no node's producer, so no
\* step invocation, happens twice.  Two complete traversals are therefore equal.
C13_Restartable ==
    /\ [](/\ \A i \in 1..Depth(Main) :
              stack[Main][i].k = "iter" =>
                 /\ stack[Main][i].n = Follow(stack[Main][i].head, Len(stack[Main][i].acc))
                 /\ \E rest \in {SubSeq(Spine(stack[Main][i].head),
                                         Len(stack[Main][i].acc) + 1,
                                         Len(Spine(stack[Main][i].head)))} :
                       Spine(stack[Main][i].head) = stack[Main][i].acc \o rest
          /\ (res # NoResult /\ res.op = "iter") => res.seq = Spine(res.node)
          /\ (TopResult /\ res.op = "iter") => Complete(res.node)
          /\ \A n \in Nodes : calls[n] <= 1
          /\ Len(stepLog) + Cardinality(StepFrames) <= Cardinality({n \in Nodes : calls[n] = 1})
          /\ Depth(Main) = 0 => Len(stepLog) = Cardinality({n \in Nodes : calls[n] = 1}))
    /\ [][\A n \in Nodes :
             Done(n) => (heap'[n] = heap[n] \/ heap'[n] = DroppedCell)]_vars

C13_Witness ==
    /\ TopResult /\ res.op = "iter" /\ Len(res.seq) = CutOff
    /\ handles[res.node] = MaxHandles
    /\ \A n \in Nodes : calls[n] = 1

\* The client's call of `op` is running on a list that was built by `by`.
OpRunning(op, by) ==
    /\ Depth(Main) > 0 /\ stack[Main][1].op = op
    /\ hist[stack[Main][1].head].by = by

\* What the step function has returned so far, without a final None.
Returned == SelectSeq(stepLog, LAMBDA v : v # 0)

\* The number of elements of the finite list headed by h: the items of its
\* source, or the values its step function returns before it returns nothing
\* (at the cutoff).
FiniteLength(h) == IF hist[h].by = "from_iter" THEN Len(hist[h].seq) ELSE CutOff

\* C14: len() on a finite list, built from a finite source or by new_cyclic
\* from a step function that returns nothing at the cutoff, returns, with the
\* number of the list's elements, when exactly that many cells plus one exist
\* and each has been forced once (for the cyclic list: one step call per cell,
\* the last of them returning nothing); get(i) returns on every list; len() on
\* a list whose source never ends returns in no state and goes on forcing
\* cells as long as there are nodes to allocate.
C14_LenTermination ==
    /\ []((TopResult /\ res.op = "len") =>
             /\ hist[res.node].by \in {"from_iter", "cyclic"}
             /\ res.n = FiniteLength(res.node)
             /\ \A n \in Nodes : heap[n].live = "live" <=> n \in 1..(res.n + 1)
             /\ \A n \in 1..(res.n + 1) : Done(n) /\ calls[n] = 1
             /\ hist[res.node].by = "cyclic" =>
                   /\ Len(stepLog) = res.n + 1
                   /\ stepLog = Append(Returned, 0)
                   /\ Spine(res.node) = Returned)
    /\ OpRunning("len", "from_iter") ~> (TopResult /\ res.op = "len")
    /\ OpRunning("len", "cyclic") ~> (TopResult /\ res.op = "len")
    /\ OpRunning("get", "from_iter") ~> (TopResult /\ res.op = "get")
    /\ OpRunning("get", "cyclic") ~> (TopResult /\ res.op = "get")
    /\ OpRunning("get", "cycle") ~> (TopResult /\ res.op = "get" /\ res.some)
    /\ OpRunning("len", "cycle") ~>
          [](OpRunning("len", "cycle") /\ Len(stack[Main][1].acc) = MaxNodes - 1)

\* len() has returned on a fresh cyclic list: it made every step call itself.
C14_Witness ==
    /\ TopResult /\ res.op = "len" /\ res.depth = 1
    /\ hist[res.node].by = "cyclic" /\ res.n = CutOff
    /\ Len(stepLog) = CutOff + 1
    /\ \A n \in 1..(CutOff + 1) : Done(n)

\* len() on the list whose source never ends has used up the nodes.
LenStillRunning ==
    /\ OpRunning("len", "cycle")
    /\ Len(stack[Main][1].acc) = MaxNodes - 1
    /\ pulls = MaxNodes - 1

\* The force frames of cell n whose pc is in pcs.
FramesAt(n, pcs) ==
    {p \in Threads \X (1..(2 * MaxForces)) :
        /\ p[2] <= Depth(p[1])
        /\ stack[p[1]][p[2]].k = "force" /\ stack[p[1]][p[2]].n = n
        /\ stack[p[1]][p[2]].pc \in pcs}

\* C15: the flag of a cell is up exactly while a force of it is between the
\* store of true, which comes right before the producer runs, and the drop of
\* the Canary, on return and on panic alike; at most one force is inside
\* get_or_init's closure; while the flag is up the producer slot is empty and
\* nothing is cached; and a force returns None only while a producer runs.
C15_FlagDiscipline ==
    /\ [](\A n \in Nodes :
            /\ heap[n].in_progress <=> FramesAt(n, {"run", "drop", "dropP"}) # {}
            /\ Cardinality(FramesAt(n, {"take", "flag", "run", "drop", "dropP", "set", "reset"})) <= 1
            /\ heap[n].in_progress =>
                  (heap[n].init = NoneF /\ heap[n].once = "RUNNING" /\ heap[n].val = NoVal))
    /\ [][\A t \in Threads :
             (IsForce(t, "check") /\ Len(stack'[t]) < Depth(t)) =>
                /\ ret'[t].kind = "None"
                /\ FramesAt(Top(t).n, {"run", "drop", "dropP"}) # {}]_vars

C15_Witness ==
    \E t \in Threads :
        /\ IsForce(t, "reset") /\ Top(t).op = "Panic"
        /\ ~heap[Top(t).n].in_progress
        /\ \E u \in Threads : u # t /\ IsForce(u, "once")

\* C16: step invocations never nest and no node's producer runs twice; the
\* k-th invocation (k = the number of earlier ones) runs for the k-th node
\* along the spine, its handle is the head of the list, the elements cached
\* from the head are the k values returned so far, and what it reads through
\* the handle is len() = k, a traversal of those k values and get(i) = the
\* i-th of them; only the last invocation returns nothing, none follows it,
\* and the client then reads the length fixed at the number of values.
C16_PrefixVisible ==
    /\ Cardinality(StepFrames) <= 1
    /\ \A n \in Nodes : calls[n] <= 1
    /\ \A i \in StepFrames :
         LET fr == stack[Main][i]
             below == stack[Main][i - 1]
         IN  /\ hist[fr.n].by = "cyclic"
             /\ below.k = "force" /\ below.pc = "run"
             /\ below.n = Follow(fr.n, Len(stepLog))
             /\ Spine(fr.n) = stepLog
             /\ stepLog = Returned
    /\ (res # NoResult /\ res.depth > 1) =>
          /\ res.op = "len" => res.n = Len(stepLog)
          /\ res.op = "iter" => res.seq = stepLog
          /\ (res.op = "get" /\ res.arg < Len(stepLog)) =>
                (res.some /\ res.n = stepLog[res.arg + 1])
    /\ stepLog \in {Returned, Append(Returned, 0)}
    /\ (TopResult /\ res.op \in {"len", "iter"}) =>
          /\ stepLog = Append(Returned, 0)
          /\ res.op = "len" => res.n = Len(Returned)
          /\ res.op = "iter" => res.seq = Returned

C16_Witness ==
    /\ res # NoResult /\ res.depth > 1
    /\ res.op = "get" /\ res.some
    /\ res.arg = Len(stepLog) - 1 /\ res.n = stepLog[Len(stepLog)]
    /\ Len(stepLog) = CutOff - 1

\* The smaller of two numbers.
Min(a, b) == IF a <= b THEN a ELSE b

\* The nodes whose producer has been invoked.
Forced == {n \in Nodes : calls[n] = 1}

\* C17: from_iter pulls nothing; between calls the number of pulls is the
\* number of forced nodes and never exceeds the source's length plus one (the
\* pull that reported exhaustion is the last); a pull is the first force of the
\* next node of the spine, made for a call that needs that node (is_empty: the
\* head only, get(i): nodes up to i); and a call returns only after the pulls
\* it needs: get(i) min(i+1, n+1), is_empty one, len and a traversal n+1.
C17_LazyPulls ==
    /\ [](/\ Forced = {} => pulls = 0
          /\ Depth(Main) = 0 => pulls = Cardinality(Forced)
          /\ \A h \in Nodes :
                hist[h].by = "from_iter" =>
                   /\ pulls <= Len(hist[h].seq) + 1
                   /\ (TopResult /\ res.node = h) =>
                         /\ res.op \in {"get", "index"} =>
                               pulls >= Min(res.arg + 1, Len(hist[h].seq) + 1)
                         /\ res.op = "is_empty" => pulls >= 1
                         /\ res.op \in {"len", "iter"} => pulls = Len(hist[h].seq) + 1)
    /\ [][pulls' # pulls =>
             LET caller == stack[Main][Depth(Main) - 1] IN
             /\ pulls' = pulls + 1
             /\ Top(Main).n = Follow(caller.head, pulls)
             /\ calls[Top(Main).n] = 1 /\ ~Done(Top(Main).n)
             /\ caller.k = "is_empty" => pulls = 0
             /\ caller.op = "get" => pulls <= caller.idx]_vars

C17_Witness ==
    /\ TopResult /\ res.op = "get" /\ res.arg = 0 /\ res.some
    /\ Len(hist[res.node].seq) = MaxLen
    /\ pulls = 1 /\ Forced = {res.node}

\* C18: no call ends in new_cyclic's `unimplemented!()`: a pending head
\* producer holds the Weak of its own node, it runs only for a live node that
\* a handle or a cell still owns, and no frame or force outcome carries the
\* failure.
C18_UpgradeSucceeds ==
    /\ \A n \in Nodes :
         (heap[n].live = "live" /\ heap[n].init.kind = "CyclicHead") => heap[n].init.node = n
    /\ IsRunning(Main, "CyclicHead") =>
          /\ Top(Main).f.node = Top(Main).n
          /\ Upgrade(heap, Top(Main).f.node)
          /\ StrongCount(heap, handles, Top(Main).n) > 0
    /\ \A i \in 1..Depth(Main) : stack[Main][i].op # "unimplemented"
    /\ ret[Main].kind \notin {"unimplemented", "Panic", "Poisoned"}

C18_Witness ==
    /\ IsRunning(Main, "CyclicHead")
    /\ handles[Top(Main).n] = MaxHandles
    /\ Depth(Main) = 2

\* C19: a force finds the producer slot empty, and panics with 'previously
\* been poisoned', only when the cell's one producer invocation is over and
\* left no value; a cell gets into that condition only by the unwinding of a
\* producer that panicked; and a force that passed the flag check while the
\* value was not yet stored waits in get_or_init instead of initialising.
C19_NoSpuriousPoison ==
    /\ [](/\ \A t \in Threads :
              (ret[t].kind = "Poisoned" \/ (IsForce(t, "reset") /\ Top(t).op = "Poisoned"))
                 => (Poisoned(TheCell) /\ calls[TheCell] = 1)
          /\ \A t, u \in Threads :
              (t # u /\ IsForce(t, "set") /\ IsForce(u, "once")) => ~ENABLED ForceOnce(u))
    /\ [][/\ \A t \in Threads :
               (IsForce(t, "take") /\ stack'[t] # stack[t] /\ stack'[t][Depth(t)].pc = "reset")
                  => (Poisoned(Top(t).n) /\ calls[Top(t).n] = 1)
          /\ \A n \in Nodes :
               (~Poisoned(n) /\ Poisoned(n)') =>
                  \E t \in Threads : /\ IsForce(t, "reset") /\ Top(t).op = "Panic"
                                      /\ Top(t).n = n /\ stack'[t] # stack[t]]_vars

C19_Witness ==
    \E t, u \in Threads :
        /\ t # u
        /\ IsForce(t, "set") /\ ~heap[TheCell].in_progress
        /\ IsForce(u, "once") /\ issued[u] >= 2

\* C20: is_empty() is true exactly when len() is 0: for the client, whose
\* is_empty() answer is compared with the elements the list has, and for a step
\* function that calls l.is_empty() and then l.len() on the handle it was given.
C20_EmptyIffLenZero ==
    /\ (TopResult /\ res.op = "is_empty") =>
          (res.some <=> (Spine(res.node) = <<>> /\ Complete(res.node)))
    /\ (TopResult /\ res.op = "len" /\ res.n = 0) => Complete(res.node)
    /\ (IsStep("len_ret") /\ Top(Main).op \in {"empty", "nonempty"} /\ res.op = "len") =>
          (Top(Main).op = "empty" <=> res.n = 0)

====
